---- MODULE Spec2Model ----
(***************************************************************************)
(* serverless-athena (src/index.js): the deployment engine that converges  *)
(* the Athena/Glue catalog to the declared databases and tables.           *)
(*                                                                         *)
(* The module holds several specifications over one set of variables:      *)
(*   SpecExec     one call of the executor returned by getExecutor         *)
(*   SpecRestore  one call of restorePartitions                            *)
(*   SpecBackup   one call of backupPartitions                             *)
(*   SpecSweep    one call of removeTrailingDatabases                      *)
(*   Spec         one run of deploy                                        *)
(* A specification leaves the variables of the other groups at rest.       *)
(***************************************************************************)
EXTENDS Integers, Sequences, FiniteSets, TLC

(***************************************************************************)
(* State                                                                   *)
(***************************************************************************)

\* one call of the executor returned by getExecutor
VARIABLES
    epc,        \* where the execute call is: "idle", "submitted", "timer",
                \* "resolved", "rejected", "lost"
    waitTime,   \* let waitTime
    delays,     \* the delays handed to setTimeout, in order
    elapsed,    \* time units since startQueryExecution returned
    pollAt,     \* value of elapsed at each getQueryExecution request
    lastState,  \* res.QueryExecution.Status.State of the latest poll
    reason,     \* res.QueryExecution.Status.StateChangeReason
    wantResults,\* the returnResults argument
    eresult,    \* let result
    eerr        \* the Error the call's promise rejects with

execVars == <<epc, waitTime, delays, elapsed, pollAt, lastState, reason,
              wantResults, eresult, eerr>>

\* one call of restorePartitions
VARIABLES
    rpc,        \* "idle", "while", "for", "exec", "returned", "typeerror",
                \* "threw" (the executor rejected), "hung" (it never settled)
    rtable,     \* the table argument
    rparts,     \* the partitions argument: a sequence of snapshots
    ri,         \* let i
    rquery,     \* the clauses appended to let query so far
    rstmts      \* the statements handed to the executor, in order

restoreVars == <<rpc, rtable, rparts, ri, rquery, rstmts>>

\* one call of backupPartitions
VARIABLES
    bpc,        \* "idle", "pages", "returned", "threw"
    btable,     \* the table in the catalog: NoTable or its keys and partitions
    bpagesize,  \* how many partitions the service puts in one page
    bgot,       \* what getTable came back with: "found", "notfound", "error"
    bcols,      \* const cols
    bacc,       \* const partitions
    btoken,     \* let nextToken
    breqs,      \* the NextToken of each getPartitions request, in order
    berr        \* the error backupPartitions throws

backupVars == <<bpc, btable, bpagesize, bgot, bcols, bacc, btoken, breqs, berr>>

\* one call of removeTrailingDatabases
VARIABLES
    spc,        \* "idle", "catalogs", "databases", "remove", "returned", "threw"
    sremote,    \* the databases of every catalog: catalog -> name -> tag or Absent
    cpagesize,  \* catalogs per page of listDataCatalogs
    dpagesize,  \* databases per page of listDatabases
    scats,      \* const catalogs, as far as listed
    sctoken,    \* nextToken of listDataCatalogs
    sci,        \* position of for (let c of catalogs)
    sdbs,       \* const list of listDatabases, as far as listed
    sdtoken,    \* nextToken of listDatabases
    strail,     \* the trailings not yet removed
    sreqs,      \* the deleteDatabase requests: name and catalog of enumeration
    sdeleted    \* the databases that were deleted: catalog, name, tag

sweepVars == <<spc, sremote, cpagesize, dpagesize, scats, sctoken, sci, sdbs,
               sdtoken, strail, sreqs, sdeleted>>

\* one run of deploy
VARIABLES
    pc,         \* where the run is
    options,    \* this.options: the database and table filters
    before,     \* the tables of the catalog when the run began
    rdb,        \* the databases of the catalog: name -> Absent or parameters
    rtbl,       \* the tables of the catalog: database -> name -> table
    di,         \* position of for (let db of databases)
    ti,         \* position of for (let tableConfig of d.tables)
    tables,     \* const tables of deployDatabase: the listing of the database
    partitions, \* let partitions of deployTable
    backupedDDL,\* let backupedDDL of deployTable
    pending,    \* the statements restorePartitions has still to execute
    trail,      \* the trailings removeTrailingTables/Databases has still to remove
    files,      \* the snapshot files written, by file name
    log         \* the requests and statements issued, in order

deployVars == <<pc, options, before, rdb, rtbl, di, ti, tables, partitions, backupedDDL,
                pending, trail, files, log>>

\* one run of remove
VARIABLES
    rmpc,       \* where the run is
    rmoptions,  \* this.options: the database filter
    rmdb,       \* the databases of the default catalog: name -> Absent or its stack tag
    rmi,        \* position of for (let db of databases)
    rmreqs      \* the deleteDatabase requests issued, in order

removeVars == <<rmpc, rmoptions, rmdb, rmi, rmreqs>>

\* the config getter, read by deploy or remove
VARIABLES
    cpc,        \* where the operation is
    cop,        \* the operation: "deploy" or "remove"
    custom,     \* this.serverless.service.custom.athena
    crequests   \* how many provider requests were issued

configVars == <<cpc, cop, custom, crequests>>

vars == <<execVars, restoreVars, backupVars, sweepVars, deployVars, removeVars, configVars>>

notExec == <<restoreVars, backupVars, sweepVars, deployVars, removeVars, configVars>>

notRestore == <<execVars, backupVars, sweepVars, deployVars, removeVars, configVars>>

notBackup == <<execVars, restoreVars, sweepVars, deployVars, removeVars, configVars>>

notSweep == <<execVars, restoreVars, backupVars, deployVars, removeVars, configVars>>

notDeploy == <<execVars, restoreVars, backupVars, sweepVars, removeVars, configVars>>

notRemove == <<execVars, restoreVars, backupVars, sweepVars, deployVars, configVars>>

notConfig == <<execVars, restoreVars, backupVars, sweepVars, deployVars, removeVars>>

Min(a, b) == IF a < b THEN a ELSE b

Range(s) == {s[k] : k \in DOMAIN s}

(***************************************************************************)
(* getExecutor (src/index.js:13-71)                                        *)
(***************************************************************************)

\* number of QUEUED/RUNNING polls one execute call is followed through
MaxPolls == 11

MaxWait == 1000

WaitStep == 100

Statuses == {"QUEUED", "RUNNING", "SUCCEEDED", "FAILED", "CANCELLED", "UNKNOWN"}

PendingStatuses == {"QUEUED", "RUNNING"}

BadStatuses == {"FAILED", "CANCELLED", "UNKNOWN"}

Reasons == {"SYNTAX_ERROR", "ACCESS_DENIED"}

NoError == <<>>

\* the switch of wait(): the Error thrown for a status
StatusError(st, why) ==
    CASE st = "FAILED" -> <<"Query failed: ", why>>
      [] st = "CANCELLED" -> <<"Query as been cancelled">>
      [] OTHER -> <<"Unexpected status code">>

\* waitTime = Math.min(1000, waitTime + 100)
NextWaitTime_NoCap(w) == w + WaitStep

NextWaitTime(w) == Min(MaxWait, w + WaitStep)

\* How the promise of the execute call settles when wait() sees a final status.
\* The first wait() is awaited by the call itself, so its throw rejects the call.
\* A later wait() runs inside the setTimeout callback: its throw rejects only the
\* callback's own promise, $resolve is never called and the call stays pending.
ExecSettle(nested, st) ==
    IF st = "SUCCEEDED" THEN "resolved"
    ELSE IF nested THEN "lost"
    ELSE "rejected"

ExecIdle ==
    /\ epc = "idle"
    /\ waitTime = 0
    /\ delays = <<>>
    /\ elapsed = 0
    /\ pollAt = <<>>
    /\ lastState = "NONE"
    /\ reason = "NONE"
    /\ wantResults = FALSE
    /\ eresult = "undefined"
    /\ eerr = NoError

\* provider.request('Athena', 'startQueryExecution', params) and let waitTime = 0
StartQuery ==
    /\ epc = "idle"
    /\ \E ok \in BOOLEAN :
         IF ok
         THEN /\ epc' = "submitted"
              /\ eerr' = eerr
         ELSE /\ epc' = "rejected"
              /\ eerr' = <<"startQueryExecution failed">>
    /\ waitTime' = 0
    /\ UNCHANGED <<delays, elapsed, pollAt, lastState, reason, wantResults, eresult>>
    /\ UNCHANGED notExec

\* when a call of wait() issues getQueryExecution: the first call at once, a call
\* made by the setTimeout callback once the delay handed to setTimeout has passed
PollTime_NoTimer(timer, t, ds) == t

PollTime(timer, t, ds) == IF timer THEN t + ds[Len(ds)] ELSE t

\* one call of wait(): the first one, or the one made by the setTimeout callback
\* once the armed delay has passed
Wait ==
    /\ epc \in {"submitted", "timer"}
    /\ \E st \in Statuses :
         LET w == NextWaitTime(waitTime)
             now == PollTime(epc = "timer", elapsed, delays)
             nested == Len(delays) > 0
         IN  /\ st \in PendingStatuses => Len(delays) < MaxPolls
             /\ waitTime' = w
             /\ elapsed' = now
             /\ pollAt' = Append(pollAt, now)
             /\ lastState' = st
             /\ IF st \in PendingStatuses
                THEN /\ epc' = "timer"
                     /\ delays' = Append(delays, w)
                     /\ UNCHANGED <<eresult, eerr>>
                ELSE /\ epc' = ExecSettle(nested, st)
                     /\ delays' = delays
                     /\ eresult' = IF st = "SUCCEEDED" /\ wantResults
                                   THEN "getQueryResults" ELSE eresult
                     /\ eerr' = IF st = "SUCCEEDED" THEN eerr
                                ELSE StatusError(st, reason)
    /\ UNCHANGED <<reason, wantResults>>
    /\ UNCHANGED notExec

ExecInit ==
    /\ epc = "idle"
    /\ waitTime = 0
    /\ delays = <<>>
    /\ elapsed = 0
    /\ pollAt = <<>>
    /\ lastState = "NONE"
    /\ reason \in Reasons
    /\ wantResults \in BOOLEAN
    /\ eresult = "undefined"
    /\ eerr = NoError

(***************************************************************************)
(* restorePartitions (src/index.js:419-450)                                *)
(***************************************************************************)

\* longest snapshot list restorePartitions is called with
MaxParts == 4

\* executed statements that are recorded; a run that returns executes at most
\* one statement per partition, so only a run that never returns fills the log
MaxStmts == MaxParts + 2

querySizeLimit == 262144

\* Buffer.byteLength(str, 'utf8') of the strings the model uses
ByteLength(str) ==
    CASE str = "s3://b/small" -> 12
      [] str = "s3://b/third" -> 87000
      [] str = "s3://b/half" -> 131072
      [] str = "s3://b/huge" -> 262200
      [] OTHER -> 2

Locations == {"s3://b/small", "s3://b/third", "s3://b/half", "s3://b/huge"}

\* `\`${name}\` = '${value}'`
ColBytes(c) == 1 + ByteLength(c.name) + 5 + ByteLength(c.value) + 1

\* `${cols}`: the array of column strings joined with ","
RECURSIVE ColsBytes(_)
ColsBytes(values) ==
    IF values = <<>> THEN 0
    ELSE ColBytes(Head(values)) + (IF Len(values) > 1 THEN 1 ELSE 0)
         + ColsBytes(Tail(values))

\* `PARTITION (${cols}) LOCATION '${location}'`
ClauseBytes(p) == 11 + ColsBytes(p.values) + 12 + ByteLength(p.location) + 1

RECURSIVE ClausesBytes(_)
ClausesBytes(clauses) ==
    IF clauses = <<>> THEN 0
    ELSE ClauseBytes(Head(clauses)) + ClausesBytes(Tail(clauses))

\* `ALTER TABLE ${table} ADD IF NOT EXISTS ` followed by the clauses
QueryBytes(table, clauses) ==
    12 + ByteLength(table) + 19 + ClausesBytes(clauses)

\* Buffer.byteLength(query + s, 'utf8') > querySizeLimit
Overflows_NoCheck(table, clauses, p) == FALSE

Overflows(table, clauses, p) ==
    QueryBytes(table, Append(clauses, p)) > querySizeLimit

\* the index the outer loop resumes from after the break: i--
BreakIndex_Keep(i) == i

BreakIndex(i) == i - 1

RestoreIdle ==
    /\ rpc = "idle"
    /\ rtable = "t1"
    /\ rparts = <<>>
    /\ ri = 0
    /\ rquery = <<>>
    /\ rstmts = <<>>

\* if (!partitions.length) return; let i = 0
RestoreBegin ==
    /\ rpc = "idle"
    /\ rpc' = IF Len(rparts) = 0 THEN "returned" ELSE "while"
    /\ ri' = 0
    /\ UNCHANGED <<rtable, rparts, rquery, rstmts>>
    /\ UNCHANGED notRestore

\* while (i < partitions.length) { let query = `ALTER TABLE ... `
RestoreWhile ==
    /\ rpc = "while"
    /\ IF ri < Len(rparts)
       THEN /\ rpc' = "for"
            /\ rquery' = <<>>
       ELSE /\ rpc' = "returned"
            /\ rquery' = rquery
    /\ UNCHANGED <<rtable, rparts, ri, rstmts>>
    /\ UNCHANGED notRestore

\* one test and one pass of the body of for (; i < partitions.length; i++)
RestoreFor ==
    /\ rpc = "for"
    /\ IF ri >= Len(rparts)
       THEN /\ rpc' = "exec"
            /\ UNCHANGED <<ri, rquery>>
       ELSE IF ri < 0
       THEN \* partitions[-1] is undefined: the destructuring throws a TypeError
            /\ rpc' = "typeerror"
            /\ UNCHANGED <<ri, rquery>>
       ELSE IF Overflows(rtable, rquery, rparts[ri + 1])
       THEN /\ rpc' = "exec"
            /\ ri' = BreakIndex(ri)
            /\ rquery' = rquery
       ELSE /\ rpc' = "for"
            /\ ri' = ri + 1
            /\ rquery' = Append(rquery, rparts[ri + 1])
    /\ UNCHANGED <<rtable, rparts, rstmts>>
    /\ UNCHANGED notRestore

\* await executor(query)
RestoreExec ==
    /\ rpc = "exec"
    /\ rstmts' = IF Len(rstmts) < MaxStmts THEN Append(rstmts, rquery) ELSE rstmts
    /\ \E nested \in BOOLEAN, st \in {"SUCCEEDED", "FAILED"} :
         rpc' = CASE ExecSettle(nested, st) = "resolved" -> "while"
                  [] ExecSettle(nested, st) = "rejected" -> "threw"
                  [] OTHER -> "hung"
    /\ UNCHANGED <<rtable, rparts, ri, rquery>>
    /\ UNCHANGED notRestore

Snapshot(v, loc) == [values |-> <<[name |-> "dt", value |-> v]>>, location |-> loc]

\* the key values of the partitions of a snapshot list, by position
PartValues == <<"d1", "d2", "d3", "d4", "d5", "d6">>

SeqsUpTo(S, n) == UNION {[1..k -> S] : k \in 0..n}

RestoreInit ==
    /\ rpc = "idle"
    /\ rtable = "t1"
    /\ rparts \in {[k \in 1..Len(locs) |-> Snapshot(PartValues[k], locs[k])] :
                      locs \in SeqsUpTo(Locations, MaxParts)}
    /\ ri = 0
    /\ rquery = <<>>
    /\ rstmts = <<>>

RestoreNext ==
    \/ RestoreBegin
    \/ RestoreWhile
    \/ RestoreFor
    \/ RestoreExec

(***************************************************************************)
(* getTable, backupPartitions (src/index.js:337-354, 389-417)              *)
(***************************************************************************)

\* longest partition listing backupPartitions is run against
MaxListed == 3

NoTable == [exists |-> FALSE]

\* the value of nextToken that ends the listing: null first, undefined later
NoToken == 0

KeySchemas == {<<"dt">>, <<"dt", "hr">>}

\* getTable: TableMetadata, null when the provider error matches
\* /Error Code: EntityNotFoundException/, and the error itself otherwise
GetTableResult_Rethrow(got, table) ==
    IF got = "found" THEN [kind |-> "table", table |-> table]
    ELSE [kind |-> "throw", table |-> NoTable]

GetTableResult(got, table) ==
    CASE got = "found" -> [kind |-> "table", table |-> table]
      [] got = "notfound" -> [kind |-> "null", table |-> NoTable]
      [] OTHER -> [kind |-> "throw", table |-> NoTable]

\* values: cols.map((c, i) => ({ name: c, value: p.Values[i] })), location
ZipPartition(cols, p) ==
    [values |-> [i \in 1..Len(cols) |-> [name |-> cols[i], value |-> p.Values[i]]],
     location |-> p.Location]

\* the page of Glue getPartitions that starts after `token` partitions
PageOf(parts, token, size) ==
    SubSeq(parts, token + 1, Min(Len(parts), token + size))

\* nextToken = res.NextToken
PageNextToken_Misread(parts, token, size) == NoToken

PageNextToken(parts, token, size) ==
    IF token + size < Len(parts) THEN token + size ELSE NoToken

BackupIdle ==
    /\ bpc = "idle"
    /\ btable = NoTable
    /\ bpagesize = 1
    /\ bgot = "none"
    /\ bcols = <<>>
    /\ bacc = <<>>
    /\ btoken = NoToken
    /\ breqs = <<>>
    /\ berr = NoError

\* const table = await this.getTable(...); const cols = table.PartitionKeys.map(...)
BackupGetTable ==
    /\ bpc = "idle"
    /\ \E got \in {"found", "notfound", "error"} :
         /\ got = "found" => btable # NoTable
         /\ got = "notfound" => btable = NoTable
         /\ bgot' = got
         /\ LET res == GetTableResult(got, btable)
            IN  CASE res.kind = "throw" ->
                       /\ bpc' = "threw"
                       /\ berr' = <<"provider error">>
                       /\ bcols' = bcols
                  [] res.kind = "null" ->
                       \* table.PartitionKeys of null
                       /\ bpc' = "threw"
                       /\ berr' = <<"TypeError">>
                       /\ bcols' = bcols
                  [] OTHER ->
                       /\ bpc' = "pages"
                       /\ berr' = berr
                       /\ bcols' = res.table.PartitionKeys
    /\ btoken' = NoToken
    /\ UNCHANGED <<btable, bpagesize, bacc, breqs>>
    /\ UNCHANGED notBackup

\* one pass of the do ... while (nextToken) loop
BackupPage ==
    /\ bpc = "pages"
    /\ breqs' = Append(breqs, btoken)
    /\ \E ok \in BOOLEAN :
         IF ok
         THEN LET page == PageOf(btable.parts, btoken, bpagesize)
                  next == PageNextToken(btable.parts, btoken, bpagesize)
              IN  /\ bacc' = bacc \o [k \in 1..Len(page) |-> ZipPartition(bcols, page[k])]
                  /\ btoken' = next
                  /\ bpc' = IF next # NoToken THEN "pages" ELSE "returned"
                  /\ berr' = berr
         ELSE /\ bpc' = "threw"
              /\ berr' = <<"provider error">>
              /\ UNCHANGED <<bacc, btoken>>
    /\ UNCHANGED <<btable, bpagesize, bgot, bcols>>
    /\ UNCHANGED notBackup

\* a partition as Glue lists it
RawPartition(keys, k, loc) ==
    [Values |-> [i \in 1..Len(keys) |-> IF i = 1 THEN PartValues[k] ELSE "00"],
     Location |-> loc]

BackupInit ==
    /\ bpc = "idle"
    /\ btable \in {NoTable} \cup
         {[exists |-> TRUE, PartitionKeys |-> keys,
           parts |-> [k \in 1..Len(locs) |-> RawPartition(keys, k, locs[k])]] :
            keys \in KeySchemas,
            locs \in SeqsUpTo({"s3://b/small", "s3://b/third"}, MaxListed)}
    /\ bpagesize \in 1..2
    /\ bgot = "none"
    /\ bcols = <<>>
    /\ bacc = <<>>
    /\ btoken = NoToken
    /\ breqs = <<>>
    /\ berr = NoError

BackupNext ==
    \/ BackupGetTable
    \/ BackupPage

(***************************************************************************)
(* listDataCatalogs, listDatabases, removeDatabase, removeTrailingDatabases*)
(* (src/index.js:249-274, 293-298, 538-556)                                *)
(***************************************************************************)

\* this.provider.naming.getStackName()
Stack == "stack-dev"

OtherStack == "stack-other"

\* a database or table without the 'sls.athena.stack' parameter
NoTag == "untagged"

Absent == "absent"

\* the catalog Glue acts on when a request names none: the account's own
DefaultCatalog == "AwsDataCatalog"

CatalogNames == <<"AwsDataCatalog", "other">>

DbNames == <<"db1", "old">>

\* usedDatabases.map(d => d.name)
SweepDeclared == {"db1"}

RECURSIVE SelectSeq2(_, _, _)
SelectSeq2(seq, f, keep) ==
    IF seq = <<>> THEN <<>>
    ELSE (IF f[Head(seq)] # keep THEN <<Head(seq)>> ELSE <<>>)
         \o SelectSeq2(Tail(seq), f, keep)

\* the DatabaseList the service holds for a catalog, in listing order
RemoteDatabases(remote, catalog) ==
    LET names == SelectSeq2(DbNames, remote[catalog], Absent)
    IN  [k \in 1..Len(names) |->
            [Name |-> names[k], stack |-> remote[catalog][names[k]], from |-> catalog]]

\* nextToken = res.nextToken: the response carries NextToken, so this is undefined
CatalogsNextToken(all, token, size) == NoToken

\* nextToken = res.NextToken
DatabasesNextToken(all, token, size) == PageNextToken(all, token, size)

\* d.Parameters && d.Parameters['sls.athena.stack'] === stack && !usedsSet.has(d.Name)
IsTrailing_AnyTag(d, used) == d.Name \notin used

IsTrailing(d, used) == d.stack = Stack /\ d.Name \notin used

\* the catalog in which Glue deleteDatabase({ Name }) looks the database up
DeleteTarget_Enumerated(d) == d.from

DeleteTarget(d) == DefaultCatalog

SweepIdle ==
    /\ spc = "idle"
    /\ sremote = [c \in Range(CatalogNames) |-> [n \in Range(DbNames) |-> Absent]]
    /\ cpagesize = 1
    /\ dpagesize = 1
    /\ scats = <<>>
    /\ sctoken = NoToken
    /\ sci = 0
    /\ sdbs = <<>>
    /\ sdtoken = NoToken
    /\ strail = <<>>
    /\ sreqs = <<>>
    /\ sdeleted = {}

\* listDataCatalogs: one pass of its do ... while (nextToken)
SweepListCatalogs ==
    /\ spc \in {"idle", "catalogs"}
    /\ \E ok \in BOOLEAN :
         IF ok
         THEN LET token == IF spc = "idle" THEN NoToken ELSE sctoken
                  next == CatalogsNextToken(CatalogNames, token, cpagesize)
              IN  /\ scats' = scats \o PageOf(CatalogNames, token, cpagesize)
                  /\ sctoken' = next
                  /\ spc' = IF next # NoToken THEN "catalogs"
                            ELSE IF Len(scats') = 0 THEN "returned" ELSE "databases"
                  /\ sci' = 1
         ELSE /\ spc' = "threw"
              /\ UNCHANGED <<scats, sctoken, sci>>
    /\ sdbs' = <<>>
    /\ sdtoken' = NoToken
    /\ UNCHANGED <<sremote, cpagesize, dpagesize, strail, sreqs, sdeleted>>
    /\ UNCHANGED notSweep

\* listDatabases(c.CatalogName): one pass of its do ... while (nextToken); after
\* the last page the trailings of the catalog are filtered out of the list
SweepListDatabases ==
    /\ spc = "databases"
    /\ \E ok \in BOOLEAN :
         IF ok
         THEN LET all == RemoteDatabases(sremote, scats[sci])
                  list == sdbs \o PageOf(all, sdtoken, dpagesize)
                  next == DatabasesNextToken(all, sdtoken, dpagesize)
              IN  /\ sdtoken' = next
                  /\ IF next # NoToken
                     THEN /\ sdbs' = list
                          /\ spc' = "databases"
                          /\ UNCHANGED <<strail, sci>>
                     ELSE /\ sdbs' = <<>>
                          /\ strail' = SelectSeq(list, LAMBDA d : IsTrailing(d, SweepDeclared))
                          /\ IF strail' # <<>>
                             THEN spc' = "remove" /\ sci' = sci
                             ELSE IF sci < Len(scats)
                             THEN spc' = "databases" /\ sci' = sci + 1
                             ELSE spc' = "returned" /\ sci' = sci
         ELSE /\ spc' = "threw"
              /\ UNCHANGED <<sdbs, sdtoken, strail, sci>>
    /\ UNCHANGED <<sremote, cpagesize, dpagesize, scats, sctoken, sreqs, sdeleted>>
    /\ UNCHANGED notSweep

\* await this.removeDatabase(d.Name): Glue deleteDatabase({ Name: name })
SweepRemove ==
    /\ spc = "remove"
    /\ LET d == Head(strail)
           target == DeleteTarget(d)
       IN  /\ sreqs' = Append(sreqs, [Name |-> d.Name, from |-> d.from])
           /\ \E ok \in BOOLEAN :
                IF ok /\ sremote[target][d.Name] # Absent
                THEN /\ sremote' = [sremote EXCEPT ![target][d.Name] = Absent]
                     /\ sdeleted' = sdeleted \cup
                          {[catalog |-> target, name |-> d.Name,
                            stack |-> sremote[target][d.Name], from |-> d.from]}
                     /\ strail' = Tail(strail)
                     /\ IF strail' # <<>>
                        THEN spc' = "remove" /\ sci' = sci
                        ELSE IF sci < Len(scats)
                        THEN spc' = "databases" /\ sci' = sci + 1
                        ELSE spc' = "returned" /\ sci' = sci
                ELSE \* the request fails (EntityNotFoundException when absent)
                     /\ spc' = "threw"
                     /\ UNCHANGED <<sremote, sdeleted, strail, sci>>
    /\ UNCHANGED <<cpagesize, dpagesize, scats, sctoken, sdbs, sdtoken>>
    /\ UNCHANGED notSweep

Tags == {Stack, OtherStack, NoTag}

SweepInit ==
    /\ spc = "idle"
    /\ sremote \in [Range(CatalogNames) -> [Range(DbNames) -> Tags \cup {Absent}]]
    /\ cpagesize \in 1..2
    /\ dpagesize \in 1..2
    /\ scats = <<>>
    /\ sctoken = NoToken
    /\ sci = 0
    /\ sdbs = <<>>
    /\ sdtoken = NoToken
    /\ strail = <<>>
    /\ sreqs = <<>>
    /\ sdeleted = {}

SweepNext ==
    \/ SweepListCatalogs
    \/ SweepListDatabases
    \/ SweepRemove

(***************************************************************************)
(* config, deploy, deployDatabase, deployTable, removeTrailingTables       *)
(* (src/index.js:165-247, 452-593)                                         *)
(***************************************************************************)

NoFilter == "none"

\* hash(str): the md5 of a declared DDL text
hash(ddl) == [md5 |-> ddl]

\* a table without the 'sls.athena.hash' parameter
NoHash == [md5 |-> "none"]

\* the PARTITIONED BY columns of the DDL texts the model uses
PartitionKeysOf(def) ==
    CASE def = "A1" -> <<"dt">>
      [] def = "A2" -> <<"dt">>
      [] def = "K1" -> <<"region">>
      [] OTHER -> <<>>

\* out of the config getter: name, ddl, keepPartitions of a table
TableConfig(name, ddl, keep) == [name |-> name, ddl |-> ddl, keepPartitions |-> keep]

\* const { databases } = this.config
Databases ==
    << [name |-> "db1", catalog |-> DefaultCatalog, tablesParam |-> "t1,t2",
        tables |-> <<TableConfig("t1", "A2", TRUE), TableConfig("t2", "A1", FALSE)>>],
       [name |-> "db2", catalog |-> DefaultCatalog, tablesParam |-> "t1",
        tables |-> <<TableConfig("t1", "B1", TRUE)>>] >>

DeployDbNames == {"db1", "db2", "old"}

TableNames == {"t1", "t2", "tx"}

DeclaredNames(d) == {d.tables[k].name : k \in 1..Len(d.tables)}

\* a table of the catalog
Table(def, h, stack, parts) ==
    [exists |-> TRUE, def |-> def, hash |-> h, stack |-> stack, parts |-> parts]

\* TableMetadata.PartitionKeys
PartitionKeys(t) == PartitionKeysOf(t.def)

\* the text SHOW CREATE TABLE gives back: the live definition with its TBLPROPERTIES
ShowCreate(t) ==
    IF t.exists
    THEN [empty |-> FALSE, def |-> t.def, hash |-> t.hash, stack |-> t.stack]
    ELSE [empty |-> TRUE]

\* the table a successful CREATE of a declared DDL text leaves
CreatedTable(ddl) == Table(ddl, NoHash, NoTag, {})

\* the table a successful CREATE of a text captured by SHOW CREATE TABLE leaves
RecreatedTable(text) == Table(text.def, text.hash, text.stack, {})

\* partitions that are left undefined
Undefined == [defined |-> FALSE]

\* partitions once backupPartitions has returned them
Defined(list) == [defined |-> TRUE, list |-> list]

\* the partitions of a table in the order Glue lists them
ListingOf(parts) ==
    LET vs == SelectSeq(PartValues, LAMBDA v : \E p \in parts : p.Values[1] = v)
    IN  [k \in 1..Len(vs) |-> CHOOSE p \in parts : p.Values[1] = vs[k]]

\* backupPartitions, all pages: the snapshots of the partitions of a table
BackupAll_FirstOnly(t) ==
    LET listing == ListingOf(t.parts)
    IN  [k \in 1..Min(1, Len(listing)) |-> ZipPartition(PartitionKeys(t), listing[k])]

BackupAll(t) ==
    LET listing == ListingOf(t.parts)
    IN  [k \in 1..Len(listing) |-> ZipPartition(PartitionKeys(t), listing[k])]

\* the file name athena-<catalog>-<database>-<table>.partitions.json
SnapshotFile(d, name) == <<d.catalog, d.name, name>>

\* a log entry
Entry(op, db, tbl, by, info, out) ==
    [op |-> op, db |-> db, tbl |-> tbl, by |-> by, info |-> info, out |-> out]

\* the outcomes of one executor call (see ExecSettle)
ExecOutcomes == {ExecSettle(nested, st) : nested \in BOOLEAN, st \in {"SUCCEEDED", "FAILED"}}

\* where a run goes on an executor call that did not resolve
PcOnFailure_Swallow(outcome) == "deploy"

PcOnFailure(outcome) == IF outcome = "rejected" THEN "failed" ELSE "hung"

TwoSmall == {RawPartition(<<"dt">>, 1, "s3://b/small"), RawPartition(<<"dt">>, 2, "s3://b/small")}

TwoHalves == {RawPartition(<<"dt">>, 1, "s3://b/half"), RawPartition(<<"dt">>, 2, "s3://b/half")}

ParamKeys == {"sls.athena.creator", "sls.athena.stack", "sls.athena.tables", "owner"}

Unset == "unset"

AbsentDb == [exists |-> FALSE]

\* a database of the catalog with its Parameters
Database(creator, stack, tbls, owner) ==
    [exists |-> TRUE,
     params |-> [k \in ParamKeys |->
                   CASE k = "sls.athena.creator" -> creator
                     [] k = "sls.athena.stack" -> stack
                     [] k = "sls.athena.tables" -> tbls
                     [] OTHER -> owner]]

\* a database deployed earlier by this stack, and one made by somebody else
ManagedDb == Database("serverless-athena", Stack, "t1", Unset)

ForeignDb == Database(Unset, Unset, Unset, "team-x")

\* d.Parameters['sls.athena.stack'] of a listed database
DbStack(db) == IF db.params["sls.athena.stack"] = Unset THEN NoTag
               ELSE db.params["sls.athena.stack"]

NoTables == [t \in TableNames |-> NoTable]

\* no statement of restorePartitions is waiting
NothingPending == [stmts |-> <<>>, end |-> "returned"]

DeployIdle ==
    /\ pc = "idle"
    /\ options = [database |-> NoFilter, table |-> NoFilter]
    /\ rdb = [n \in DeployDbNames |-> AbsentDb]
    /\ rtbl = [n \in DeployDbNames |-> NoTables]
    /\ before = rtbl
    /\ di = 0
    /\ ti = 0
    /\ tables = NoTables
    /\ partitions = Undefined
    /\ backupedDDL = [empty |-> TRUE]
    /\ pending = NothingPending
    /\ trail = <<>>
    /\ files = {}
    /\ log = <<>>

\* what db1.t1 (declared A2, keepPartitions) may be before the run
T1Before ==
    {NoTable,
     Table("A1", hash("A1"), Stack, TwoSmall),
     Table("A2", hash("A2"), Stack, TwoSmall),
     Table("A1", NoHash, NoTag, TwoSmall),
     Table("A1", hash("A1"), Stack, TwoHalves),
     Table("K1", hash("K1"), Stack, TwoSmall)}

\* what db1.t2 (declared A1, no keepPartitions) may be before the run
T2Before ==
    {NoTable,
     Table("A1", hash("A1"), Stack, {}),
     Table("A2", hash("A2"), Stack, TwoSmall)}

\* what the undeclared db1.tx may be before the run
TxBefore ==
    {NoTable,
     Table("B1", hash("B1"), Stack, {}),
     Table("B1", NoHash, NoTag, {})}

\* what db2.t1 (declared B1, keepPartitions) may be before the run
T3Before ==
    {NoTable,
     Table("B1", hash("B1"), Stack, {}),
     Table("A1", hash("A1"), Stack, TwoSmall)}

TablesBefore(db) ==
    IF ~db["db1"].exists /\ ~db["db2"].exists THEN {[n \in DeployDbNames |-> NoTables]}
    ELSE {[n \in DeployDbNames |->
             CASE n = "db1" /\ db[n].exists ->
                    [t \in TableNames |->
                       CASE t = "t1" -> a [] t = "t2" -> b [] OTHER -> x]
               [] n = "db2" /\ db[n].exists ->
                    [t \in TableNames |-> IF t = "t1" THEN c ELSE NoTable]
               [] OTHER -> NoTables] :
            a \in IF db["db1"].exists THEN T1Before ELSE {NoTable},
            b \in IF db["db1"].exists THEN T2Before ELSE {NoTable},
            x \in IF db["db1"].exists THEN TxBefore ELSE {NoTable},
            c \in IF db["db2"].exists THEN T3Before ELSE {NoTable}}

\* the catalog before a run: databases of this stack, of nobody, or absent, with
\* tables deployed earlier from the same or another DDL text, or made by others
DeployInit ==
    /\ pc = "deploy"
    /\ options \in {[database |-> dbf, table |-> tf] :
                      dbf \in {NoFilter, "db1"}, tf \in {NoFilter, "t1"}}
    /\ rdb \in {[n \in DeployDbNames |->
                   CASE n = "db1" -> a [] n = "db2" -> b [] OTHER -> c] :
                  a \in {AbsentDb, ManagedDb, ForeignDb},
                  b \in {AbsentDb, ManagedDb},
                  c \in {AbsentDb, ManagedDb, ForeignDb}}
    /\ rtbl \in TablesBefore(rdb)
    /\ before = rtbl
    /\ di = 1
    /\ ti = 0
    /\ tables = NoTables
    /\ partitions = Undefined
    /\ backupedDDL = [empty |-> TRUE]
    /\ pending = NothingPending
    /\ trail = <<>>
    /\ files = {}
    /\ log = <<>>

CurDb == Databases[di]

\* for (let tableConfig of d.tables)
CurTable_Reversed == CurDb.tables[Len(CurDb.tables) + 1 - ti]

CurTable == CurDb.tables[ti]

\* the table deployTable works on, as the catalog holds it now
Live == rtbl[CurDb.name][CurTable.name]

Logged(op, tbl, by, info, out) ==
    log' = Append(log, Entry(op, CurDb.name, tbl, by, info, out))

\* how a Glue request or a file write that may fail ends
Out(ok) == IF ok THEN "resolved" ELSE "rejected"

\* the 'sls.athena.stack' of a table, for the log
TagOf(t) == IF t.exists THEN t.stack ELSE Absent

\* tableUpdated(config, table)
tableUpdated_Always(config, table) == TRUE

tableUpdated(config, table) ==
    IF ~table.exists THEN TRUE ELSE hash(config.ddl) # table.hash

\* const hasPartitions = table && table.PartitionKeys && table.PartitionKeys.length > 0
hasPartitions_Never(table) == FALSE

hasPartitions(table) == table.exists /\ Len(PartitionKeys(table)) > 0

\* where deployTable goes once partitions are backed up or need not be:
\* getTableDDL when needRemove, and the stamp otherwise (!table implies needRemove)
AfterBackup(config, table) == IF tableUpdated(config, table) THEN "show" ELSE "stamp"

\* the statements restorePartitions executes for a snapshot list, and how it ends
RECURSIVE RestoreLoop(_, _, _, _, _)
RestoreLoop(table, parts, i, query, stmts) ==
    IF i >= Len(parts)
    THEN [stmts |-> Append(stmts, query), end |-> "returned"]
    ELSE IF i < 0
    THEN [stmts |-> stmts, end |-> "typeerror"]
    ELSE IF Overflows(table, query, parts[i + 1])
    THEN IF Len(stmts) + 1 >= MaxStmts
         THEN [stmts |-> Append(stmts, query), end |-> "diverges"]
         ELSE RestoreLoop(table, parts, BreakIndex(i), <<>>, Append(stmts, query))
    ELSE RestoreLoop(table, parts, i + 1, Append(query, parts[i + 1]), stmts)

RestoreRun(table, parts) ==
    IF Len(parts) = 0 THEN [stmts |-> <<>>, end |-> "returned"]
    ELSE RestoreLoop(table, parts, 0, <<>>, <<>>)

\* if (!this.options.database) await this.removeTrailingDatabases(databases)
SweepsDatabases_Always(opts) == TRUE

SweepsDatabases(opts) == opts.database = NoFilter

\* for (let db of databases): the filter, and the end of the loop
DeployLoop ==
    /\ pc = "deploy"
    /\ IF di > Len(Databases)
       THEN /\ pc' = IF SweepsDatabases(options) THEN "trailingDatabases" ELSE "done"
            /\ di' = di
       ELSE IF options.database # NoFilter /\ CurDb.name # options.database
       THEN /\ pc' = "deploy"
            /\ di' = di + 1
       ELSE /\ pc' = "getDatabase"
            /\ di' = di
    /\ UNCHANGED <<options, before, rdb, rtbl, ti, tables, partitions, backupedDDL,
                   pending, trail, files, log>>
    /\ UNCHANGED notDeploy

\* const db = await this.getDatabase(d.catalog, d.name)
GetDatabase ==
    /\ pc = "getDatabase"
    /\ \E got \in {"found", "notfound", "error"} :
         /\ Logged("getDatabase", "-", "deployDatabase", "-",
                   IF got = "error" THEN "rejected" ELSE "resolved")
         /\ got = "found" => rdb[CurDb.name].exists
         /\ got = "notfound" => ~rdb[CurDb.name].exists
         /\ pc' = CASE got = "found" -> "updateDatabase"
                    [] got = "notfound" -> "createDatabase"
                    [] OTHER -> PcOnFailure("rejected")
    /\ UNCHANGED <<options, before, rdb, rtbl, di, ti, tables, partitions, backupedDDL,
                   pending, trail, files>>
    /\ UNCHANGED notDeploy

\* db.properties of the config getter, which getDbDDL writes into the DDL
DeclaredParams(d) ==
    [k \in ParamKeys |->
        CASE k = "sls.athena.creator" -> "serverless-athena"
          [] k = "sls.athena.stack" -> Stack
          [] k = "sls.athena.tables" -> d.tablesParam
          [] OTHER -> Unset]

\* await this.createDatabase(dbExecutor, d)
CreateDatabase ==
    /\ pc = "createDatabase"
    /\ \E o \in ExecOutcomes :
         /\ Logged("createDatabase", "-", "deployDatabase", "-", o)
         /\ IF o = "resolved"
            THEN /\ rdb' = [rdb EXCEPT ![CurDb.name] =
                               [exists |-> TRUE, params |-> DeclaredParams(CurDb)]]
                 /\ pc' = "listTables"
            ELSE /\ rdb' = rdb
                 /\ pc' = PcOnFailure(o)
    /\ UNCHANGED <<options, before, rtbl, di, ti, tables, partitions, backupedDDL,
                   pending, trail, files>>
    /\ UNCHANGED notDeploy

\* the parameters argument of this.updateDatabase(d, {})
UpdateParameters(d) == [k \in ParamKeys |-> Unset]

\* Parameters: { ...db.Parameters, ...parameters }
MergeParams(old, new) == [k \in ParamKeys |-> IF new[k] # Unset THEN new[k] ELSE old[k]]

\* await this.updateDatabase(d, {})
UpdateDatabase ==
    /\ pc = "updateDatabase"
    /\ \E ok \in BOOLEAN :
         /\ Logged("updateDatabase", "-", "deployDatabase",
                   IF rdb[CurDb.name].exists
                   THEN [read |-> rdb[CurDb.name].params,
                         written |-> MergeParams(rdb[CurDb.name].params,
                                                 UpdateParameters(CurDb))]
                   ELSE [read |-> Unset, written |-> Unset],
                   Out(ok /\ rdb[CurDb.name].exists))
         /\ IF ok /\ rdb[CurDb.name].exists
            THEN /\ rdb' = [rdb EXCEPT ![CurDb.name].params =
                               MergeParams(@, UpdateParameters(CurDb))]
                 /\ pc' = "listTables"
            ELSE /\ rdb' = rdb
                 /\ pc' = PcOnFailure("rejected")
    /\ UNCHANGED <<options, before, rtbl, di, ti, tables, partitions, backupedDDL,
                   pending, trail, files>>
    /\ UNCHANGED notDeploy

\* const tables = await this.listTables(d.catalog, d.name)
ListTables ==
    /\ pc = "listTables"
    /\ \E ok \in BOOLEAN :
         /\ Logged("listTables", "-", "deployDatabase", "-", Out(ok))
         /\ IF ok
            THEN /\ tables' = rtbl[CurDb.name]
                 /\ ti' = 1
                 /\ pc' = "tableLoop"
            ELSE /\ pc' = PcOnFailure("rejected")
                 /\ UNCHANGED <<tables, ti>>
    /\ UNCHANGED <<options, before, rdb, rtbl, di, partitions, backupedDDL, pending, trail, files>>
    /\ UNCHANGED notDeploy

\* for (let tableConfig of d.tables): the filter, the end of the loop, and the
\* entry of deployTable up to its first request
TableLoop ==
    /\ pc = "tableLoop"
    /\ IF ti > Len(CurDb.tables)
       THEN /\ IF options.table # NoFilter
               THEN pc' = "trailingTables" /\ di' = di
               ELSE pc' = "deploy" /\ di' = di + 1
            /\ ti' = ti
       ELSE IF options.table # NoFilter /\ CurTable.name # options.table
       THEN /\ pc' = "tableLoop"
            /\ ti' = ti + 1
            /\ di' = di
       ELSE /\ pc' = IF hasPartitions(tables[CurTable.name]) /\ CurTable.keepPartitions
                     THEN "backup"
                     ELSE AfterBackup(CurTable, tables[CurTable.name])
            /\ ti' = ti
            /\ di' = di
    /\ partitions' = Undefined
    /\ backupedDDL' = [empty |-> TRUE]
    /\ UNCHANGED <<options, before, rdb, rtbl, tables, pending, trail, files, log>>
    /\ UNCHANGED notDeploy

\* partitions = await this.backupPartitions(catalog, database, name)
Backup ==
    /\ pc = "backup"
    /\ \E got \in {"found", "notfound", "error"}, ok \in BOOLEAN :
         /\ Logged("backupPartitions", CurTable.name, "deployTable", "-",
                   Out(GetTableResult(got, Live).kind = "table" /\ ok))
         /\ got = "found" => Live.exists
         /\ got = "notfound" => ~Live.exists
         /\ IF GetTableResult(got, Live).kind = "table" /\ ok
            THEN /\ partitions' = Defined(BackupAll(Live))
                 /\ pc' = "writeFile"
            ELSE /\ partitions' = partitions
                 /\ pc' = PcOnFailure("rejected")
    /\ UNCHANGED <<options, before, rdb, rtbl, di, ti, tables, backupedDDL, pending, trail, files>>
    /\ UNCHANGED notDeploy

\* fs.writeFileSync(file, JSON.stringify(partitions))
WriteFile ==
    /\ pc = "writeFile"
    /\ \E ok \in BOOLEAN :
         /\ Logged("writeFile", CurTable.name, "deployTable", "-", Out(ok))
         /\ IF ok
            THEN /\ files' = files \cup
                      {[file |-> SnapshotFile(CurDb, CurTable.name), content |-> partitions.list]}
                 /\ pc' = AfterBackup(CurTable, tables[CurTable.name])
            ELSE /\ files' = files
                 /\ pc' = PcOnFailure("rejected")
    /\ UNCHANGED <<options, before, rdb, rtbl, di, ti, tables, partitions, backupedDDL,
                   pending, trail>>
    /\ UNCHANGED notDeploy

\* backupedDDL = await this.getTableDDL(executor, tableConfig.name)
Show ==
    /\ pc = "show"
    /\ \E o \in ExecOutcomes :
         /\ Logged("SHOW", CurTable.name, "deployTable", TagOf(Live), o)
         /\ IF o = "resolved"
            THEN /\ backupedDDL' = ShowCreate(Live)
                 /\ pc' = "drop"
            ELSE /\ backupedDDL' = backupedDDL
                 /\ pc' = PcOnFailure(o)
    /\ UNCHANGED <<options, before, rdb, rtbl, di, ti, tables, partitions, pending, trail, files>>
    /\ UNCHANGED notDeploy

\* await this.removeTable(executor, tableConfig.name)
Drop ==
    /\ pc = "drop"
    /\ \E o \in ExecOutcomes :
         /\ Logged("DROP", CurTable.name, "deployTable", TagOf(Live), o)
         /\ IF o = "resolved"
            THEN /\ rtbl' = [rtbl EXCEPT ![CurDb.name][CurTable.name] = NoTable]
                 /\ pc' = "create"
            ELSE /\ rtbl' = rtbl
                 /\ pc' = PcOnFailure(o)
    /\ UNCHANGED <<options, before, rdb, di, ti, tables, partitions, backupedDDL, pending,
                   trail, files>>
    /\ UNCHANGED notDeploy

\* where the catch of deployTable leads: if (backupedDDL) restore, else nothing
AfterCreateFailed(text) == IF ~text.empty THEN "rollback" ELSE "stamp"

\* try { await this.createTable(executor, tableConfig.name, tableConfig.ddl) }
Create ==
    /\ pc = "create"
    /\ \E o \in ExecOutcomes :
         /\ Logged("CREATE", CurTable.name, "deployTable", CurTable.ddl, o)
         /\ o = "resolved" => ~Live.exists
         /\ CASE o = "resolved" ->
                   /\ rtbl' = [rtbl EXCEPT ![CurDb.name][CurTable.name] =
                                  CreatedTable(CurTable.ddl)]
                   /\ pc' = "stamp"
              [] o = "rejected" ->
                   /\ rtbl' = rtbl
                   /\ pc' = AfterCreateFailed(backupedDDL)
              [] OTHER ->
                   /\ rtbl' = rtbl
                   /\ pc' = "hung"
    /\ UNCHANGED <<options, before, rdb, di, ti, tables, partitions, backupedDDL, pending,
                   trail, files>>
    /\ UNCHANGED notDeploy

\* the text the catch re-creates the table from
RollbackText(config, text) == text

\* catch: await this.createTable(executor, tableConfig.name, backupedDDL)
Rollback ==
    /\ pc = "rollback"
    /\ \E o \in ExecOutcomes :
         /\ Logged("CREATE", CurTable.name, "rollback", RollbackText(CurTable, backupedDDL).def, o)
         /\ o = "resolved" => ~Live.exists
         /\ IF o = "resolved"
            THEN /\ rtbl' = [rtbl EXCEPT ![CurDb.name][CurTable.name] =
                                RecreatedTable(RollbackText(CurTable, backupedDDL))]
                 /\ pc' = "stamp"
            ELSE /\ rtbl' = rtbl
                 /\ pc' = PcOnFailure(o)
    /\ UNCHANGED <<options, before, rdb, di, ti, tables, partitions, backupedDDL, pending,
                   trail, files>>
    /\ UNCHANGED notDeploy

\* the TBLPROPERTIES deployTable sets
Stamp ==
    /\ pc = "stamp"
    /\ \E o \in ExecOutcomes :
         /\ Logged("STAMP", CurTable.name, "deployTable", CurTable.ddl, o)
         /\ o = "resolved" => Live.exists
         /\ IF o = "resolved"
            THEN /\ rtbl' = [rtbl EXCEPT ![CurDb.name][CurTable.name] =
                                [@ EXCEPT !.hash = hash(CurTable.ddl), !.stack = Stack]]
                 /\ pc' = "getTable"
            ELSE /\ rtbl' = rtbl
                 /\ pc' = PcOnFailure(o)
    /\ UNCHANGED <<options, before, rdb, di, ti, tables, partitions, backupedDDL, pending,
                   trail, files>>
    /\ UNCHANGED notDeploy

\* newTablePartionned && partitions && partitions.length
ShouldRestore_AnyNewTable(newTable, parts) ==
    /\ parts.defined
    /\ Len(parts.list) > 0

ShouldRestore(newTable, parts) ==
    /\ Len(PartitionKeys(newTable)) > 0
    /\ parts.defined
    /\ Len(parts.list) > 0

\* const newTable = await this.getTable(...), and the test that follows
GetNewTable ==
    /\ pc = "getTable"
    /\ \E got \in {"found", "notfound", "error"} :
         /\ Logged("getTable", CurTable.name, "deployTable", "-",
                   Out(GetTableResult(got, Live).kind = "table"))
         /\ got = "found" => Live.exists
         /\ got = "notfound" => ~Live.exists
         /\ IF GetTableResult(got, Live).kind # "table"
            THEN /\ pc' = PcOnFailure("rejected")
                 /\ UNCHANGED <<ti, pending>>
            ELSE IF ShouldRestore(Live, partitions)
            THEN /\ pc' = "restore"
                 /\ pending' = RestoreRun(CurTable.name, partitions.list)
                 /\ ti' = ti
            ELSE /\ pc' = "done?"
                 /\ ti' = ti
                 /\ pending' = pending
    /\ UNCHANGED <<options, before, rdb, rtbl, di, tables, partitions, backupedDDL,
                   trail, files>>
    /\ UNCHANGED notDeploy

\* the partition of the catalog one PARTITION (...) LOCATION '...' clause adds
PartitionOf(clause) ==
    [Values |-> [k \in 1..Len(clause.values) |-> clause.values[k].value],
     Location |-> clause.location]

ClauseNames(clause) == [k \in 1..Len(clause.values) |-> clause.values[k].name]

\* ADD IF NOT EXISTS: a partition with the same values stays as it is
AddPartitions(parts, stmt) ==
    parts \cup {q \in {PartitionOf(stmt[k]) : k \in 1..Len(stmt)} :
                  \A p \in parts : p.Values # q.Values}

\* Athena accepts the statement: it has a clause, and the clauses name the keys
Accepted(t, stmt) ==
    /\ t.exists
    /\ Len(stmt) > 0
    /\ \A k \in 1..Len(stmt) : ClauseNames(stmt[k]) = PartitionKeys(t)

\* await executor(query) of restorePartitions, one statement after the other; a
\* restore that never leaves its while loop is left at "spinning"
RestoreStmt ==
    /\ pc = "restore"
    /\ IF pending.stmts = <<>>
       THEN /\ pc' = CASE pending.end = "returned" -> "done?"
                       [] pending.end = "typeerror" -> PcOnFailure("rejected")
                       [] OTHER -> "spinning"
            /\ UNCHANGED <<rtbl, pending, log, ti>>
       ELSE \E o \in ExecOutcomes :
              /\ Logged("ADD", CurTable.name, "restorePartitions",
                        Len(Head(pending.stmts)), o)
              /\ o = "resolved" => Accepted(Live, Head(pending.stmts))
              /\ IF o = "resolved"
                 THEN /\ rtbl' = [rtbl EXCEPT ![CurDb.name][CurTable.name].parts =
                                     AddPartitions(@, Head(pending.stmts))]
                      /\ pending' = [pending EXCEPT !.stmts = Tail(@)]
                      /\ pc' = pc
                 ELSE /\ pc' = PcOnFailure(o)
                      /\ UNCHANGED <<rtbl, pending>>
              /\ ti' = ti
    /\ UNCHANGED <<options, before, rdb, di, tables, partitions, backupedDDL, trail, files>>
    /\ UNCHANGED notDeploy

\* this.log(`${tableConfig.fullname}: done`): deployTable returns
TableDone ==
    /\ pc = "done?"
    /\ Logged("done", CurTable.name, "deployTable", "-", "resolved")
    /\ pc' = "tableLoop"
    /\ ti' = ti + 1
    /\ UNCHANGED <<options, before, rdb, rtbl, di, tables, partitions, backupedDDL,
                   pending, trail, files>>
    /\ UNCHANGED notDeploy

TableOrder == <<"t1", "t2", "tx">>

\* the filter of removeTrailingTables
IsTrailingTable_AnyTag(name, t, used) == t.exists /\ name \notin used

IsTrailingTable(name, t, used) ==
    /\ t.exists
    /\ t.stack = Stack
    /\ name \notin used

\* if (this.options.table) await this.removeTrailingTables(tableExecutor, tables, d.tables)
TrailingTables ==
    /\ pc = "trailingTables"
    /\ LET trailings == SelectSeq(TableOrder,
                          LAMBDA n : IsTrailingTable(n, tables[n], DeclaredNames(CurDb)))
       IN  /\ trail' = trailings
           /\ Logged("found", "-", "removeTrailingTables", Len(trailings), "resolved")
           /\ IF trailings = <<>>
              THEN pc' = "deploy" /\ di' = di + 1
              ELSE pc' = "dropTrailing" /\ di' = di
    /\ UNCHANGED <<options, before, rdb, rtbl, ti, tables, partitions, backupedDDL,
                   pending, files>>
    /\ UNCHANGED notDeploy

\* for (let t of trailings) await this.removeTable(executor, t.Name)
DropTrailing ==
    /\ pc = "dropTrailing"
    /\ \E o \in ExecOutcomes :
         /\ Logged("DROP", Head(trail), "removeTrailingTables",
                   TagOf(rtbl[CurDb.name][Head(trail)]), o)
         /\ IF o = "resolved"
            THEN /\ rtbl' = [rtbl EXCEPT ![CurDb.name][Head(trail)] = NoTable]
                 /\ trail' = Tail(trail)
                 /\ IF Tail(trail) = <<>>
                    THEN pc' = "deploy" /\ di' = di + 1
                    ELSE pc' = pc /\ di' = di
            ELSE /\ pc' = PcOnFailure(o)
                 /\ UNCHANGED <<rtbl, trail, di>>
    /\ UNCHANGED <<options, before, rdb, ti, tables, partitions, backupedDDL,
                   pending, files>>
    /\ UNCHANGED notDeploy

DbOrder == <<"db1", "db2", "old">>

\* if (!this.options.database) await this.removeTrailingDatabases(databases):
\* the listings and the filter
TrailingDatabases ==
    /\ pc = "trailingDatabases"
    /\ \E ok \in BOOLEAN :
         /\ log' = Append(log, Entry("listDatabases", "-", "-",
                                     "removeTrailingDatabases", "-", Out(ok)))
         /\ IF ok
            THEN LET used == {Databases[k].name : k \in 1..Len(Databases)}
                     trailings == SelectSeq(DbOrder, LAMBDA n :
                                    /\ rdb[n].exists
                                    /\ IsTrailing([Name |-> n, stack |-> DbStack(rdb[n])],
                                                  used))
                 IN  /\ trail' = trailings
                     /\ pc' = IF trailings = <<>> THEN "done" ELSE "deleteTrailing"
            ELSE /\ pc' = PcOnFailure("rejected")
                 /\ trail' = trail
    /\ UNCHANGED <<options, before, rdb, rtbl, di, ti, tables, partitions, backupedDDL,
                   pending, files>>
    /\ UNCHANGED notDeploy

\* for (let d of trailings) await this.removeDatabase(d.Name)
DeleteTrailing ==
    /\ pc = "deleteTrailing"
    /\ \E ok \in BOOLEAN :
         /\ log' = Append(log, Entry("deleteDatabase", Head(trail), "-",
                                     "removeTrailingDatabases",
                                     DbStack(rdb[Head(trail)]), Out(ok)))
         /\ IF ok
            THEN /\ rdb' = [rdb EXCEPT ![Head(trail)] = AbsentDb]
                 /\ rtbl' = [rtbl EXCEPT ![Head(trail)] = NoTables]
                 /\ trail' = Tail(trail)
                 /\ pc' = IF Tail(trail) = <<>> THEN "done" ELSE pc
            ELSE /\ pc' = PcOnFailure("rejected")
                 /\ UNCHANGED <<rdb, rtbl, trail>>
    /\ UNCHANGED <<options, before, di, ti, tables, partitions, backupedDDL, pending, files>>
    /\ UNCHANGED notDeploy

(***************************************************************************)
(* remove (src/index.js:595-607) and removeDatabase (293-298)              *)
(***************************************************************************)

\* a value handed to a request as Name: a string, or an object (a database of
\* the config)
StringValue(text) == [type |-> "string", text |-> text]

ObjectValue(db) == [type |-> "object", text |-> "[object Object]", name |-> db.name]

\* the argument remove hands to removeDatabase: await this.removeDatabase(db)
RemoveArgument(db) == ObjectValue(db)

RemoveIdle ==
    /\ rmpc = "idle"
    /\ rmoptions = [database |-> NoFilter]
    /\ rmdb = [n \in DeployDbNames |-> Absent]
    /\ rmi = 0
    /\ rmreqs = <<>>

\* for (let db of databases): the filter, and the end of the loop
RemoveLoop ==
    /\ rmpc = "remove"
    /\ IF rmi > Len(Databases)
       THEN rmpc' = "done" /\ rmi' = rmi
       ELSE IF rmoptions.database # NoFilter /\ Databases[rmi].name # rmoptions.database
       THEN rmpc' = "remove" /\ rmi' = rmi + 1
       ELSE rmpc' = "removeDatabase" /\ rmi' = rmi
    /\ UNCHANGED <<rmoptions, rmdb, rmreqs>>
    /\ UNCHANGED notRemove

\* removeDatabase(name): Glue deleteDatabase({ Name: name }). A Name that is not
\* a string fails the validation of the request parameters; a string names a
\* database of the default catalog, which must exist.
RemoveDatabase ==
    /\ rmpc = "removeDatabase"
    /\ LET name == RemoveArgument(Databases[rmi])
       IN  \E ok \in BOOLEAN :
             /\ ok => (name.type = "string" /\ name.text \in DeployDbNames
                       /\ rmdb[name.text] # Absent)
             /\ rmreqs' = Append(rmreqs, [Name |-> name, out |-> Out(ok)])
             /\ IF ok
                THEN /\ rmdb' = [rmdb EXCEPT ![name.text] = Absent]
                     /\ rmi' = rmi + 1
                     /\ rmpc' = "remove"
                ELSE /\ rmpc' = "failed"
                     /\ UNCHANGED <<rmdb, rmi>>
    /\ UNCHANGED rmoptions
    /\ UNCHANGED notRemove

RemoveInit ==
    /\ rmpc = "remove"
    /\ rmoptions \in {[database |-> f] : f \in {NoFilter, "db1", "db2", "nodb"}}
    /\ rmdb \in [DeployDbNames -> {Absent, Stack, NoTag}]
    /\ rmi = 1
    /\ rmreqs = <<>>

RemoveNext ==
    \/ RemoveLoop
    \/ RemoveDatabase

(***************************************************************************)
(* get config (src/index.js:165-247), as deploy and remove read it         *)
(***************************************************************************)

\* how many databases custom.athena.databases lists at most
MaxDbs == 2

\* a table of custom.athena.databases[].tables: enabled, name and ddl given or not
RawTables == [enabled : BOOLEAN, name : BOOLEAN, ddl : BOOLEAN]

\* config.tables: not given, something that is not an array, or an array
RawTableLists ==
    {[shape |-> "missing", list |-> <<>>], [shape |-> "notArray", list |-> <<>>],
     [shape |-> "array", list |-> <<>>]}
    \cup {[shape |-> "array", list |-> <<t>>] : t \in RawTables}

\* a database of custom.athena.databases; output is config.output || defaults.output
RawDatabases == [enabled : BOOLEAN, output : {"s3://out", ""}, tables : RawTableLists]

\* the error the getter throws for one database of the list, or "none"
DatabaseError_NoTableCheck(d) ==
    IF ~d.enabled THEN "none"
    ELSE IF d.output = "" THEN "'output' is empty"
    ELSE IF d.tables.shape = "notArray" THEN "'tables' must be an array"
    ELSE IF d.tables.shape = "missing" THEN "TypeError"
    ELSE "none"

DatabaseError(d) ==
    IF ~d.enabled THEN "none"
    ELSE IF d.output = "" THEN "'output' is empty"
    ELSE IF d.tables.shape = "notArray" THEN "'tables' must be an array"
    ELSE IF d.tables.shape = "missing" THEN "TypeError"
    ELSE IF \E k \in 1..Len(d.tables.list) :
              d.tables.list[k].enabled /\ ~d.tables.list[k].name THEN "Invalid name"
    ELSE IF \E k \in 1..Len(d.tables.list) :
              d.tables.list[k].enabled /\ ~d.tables.list[k].ddl THEN "Invalid DDL"
    ELSE "none"

\* get config(): the error it throws, or "none", and how many databases it returns
config(c) ==
    IF ~c.present THEN [error |-> "none", databases |-> 0]
    ELSE IF ~c.isArray
    THEN [error |-> "custom.athena.databases must be an array of databases", databases |-> 0]
    ELSE IF \E k \in 1..Len(c.databases) : DatabaseError(c.databases[k]) # "none"
    THEN [error |-> DatabaseError(c.databases[
                      CHOOSE k \in 1..Len(c.databases) :
                        /\ DatabaseError(c.databases[k]) # "none"
                        /\ \A j \in 1..(k - 1) : DatabaseError(c.databases[j]) = "none"]),
          databases |-> 0]
    ELSE [error |-> "none",
          databases |-> Cardinality({k \in 1..Len(c.databases) : c.databases[k].enabled})]

ConfigIdle ==
    /\ cpc = "idle"
    /\ cop = "deploy"
    /\ custom = [present |-> FALSE]
    /\ crequests = 0

\* const { databases } = this.config: the first statement of deploy and of remove
ReadConfig ==
    /\ cpc = "start"
    /\ cpc' = IF config(custom).error # "none" THEN "failed" ELSE "running"
    /\ UNCHANGED <<cop, custom, crequests>>
    /\ UNCHANGED notConfig

\* the first provider request of the operation: deploy issues one for its first
\* database, or for the catalogs when there is none; remove issues one only when
\* there is a database
FirstRequest ==
    /\ cpc = "running"
    /\ IF cop = "deploy" \/ config(custom).databases > 0
       THEN cpc' = "requested" /\ crequests' = crequests + 1
       ELSE cpc' = "done" /\ crequests' = crequests
    /\ UNCHANGED <<cop, custom>>
    /\ UNCHANGED notConfig

ConfigInit ==
    /\ cpc = "start"
    /\ cop \in {"deploy", "remove"}
    /\ custom \in {[present |-> FALSE]}
                  \cup {[present |-> TRUE, isArray |-> FALSE, databases |-> <<>>]}
                  \cup {[present |-> TRUE, isArray |-> TRUE, databases |-> ds] :
                          ds \in UNION {[1..n -> RawDatabases] : n \in 0..MaxDbs}}
    /\ crequests = 0

ConfigNext ==
    \/ ReadConfig
    \/ FirstRequest

ExecNext ==
    \/ StartQuery
    \/ Wait

InitExec == ExecInit /\ RestoreIdle /\ BackupIdle /\ SweepIdle /\ DeployIdle /\ RemoveIdle /\ ConfigIdle

InitRestore == RestoreInit /\ ExecIdle /\ BackupIdle /\ SweepIdle /\ DeployIdle /\ RemoveIdle /\ ConfigIdle

InitBackup == BackupInit /\ ExecIdle /\ RestoreIdle /\ SweepIdle /\ DeployIdle /\ RemoveIdle /\ ConfigIdle

InitSweep == SweepInit /\ ExecIdle /\ RestoreIdle /\ BackupIdle /\ DeployIdle /\ RemoveIdle /\ ConfigIdle

InitRemove ==
    /\ RemoveInit /\ ExecIdle /\ RestoreIdle /\ BackupIdle /\ SweepIdle /\ DeployIdle
    /\ ConfigIdle

InitConfig ==
    /\ ConfigInit /\ ExecIdle /\ RestoreIdle /\ BackupIdle /\ SweepIdle /\ DeployIdle
    /\ RemoveIdle

Init == DeployInit /\ ExecIdle /\ RestoreIdle /\ BackupIdle /\ SweepIdle /\ RemoveIdle /\ ConfigIdle

Next ==
    \/ DeployLoop
    \/ GetDatabase
    \/ CreateDatabase
    \/ UpdateDatabase
    \/ ListTables
    \/ TableLoop
    \/ Backup
    \/ WriteFile
    \/ Show
    \/ Drop
    \/ Create
    \/ Rollback
    \/ Stamp
    \/ GetNewTable
    \/ RestoreStmt
    \/ TableDone
    \/ TrailingTables
    \/ DropTrailing
    \/ TrailingDatabases
    \/ DeleteTrailing

Spec == Init /\ [][Next]_vars

SpecRemove == InitRemove /\ [][RemoveNext]_vars

SpecConfig == InitConfig /\ [][ConfigNext]_vars

SpecExec == InitExec /\ [][ExecNext]_vars

SpecBackup == InitBackup /\ [][BackupNext]_vars

SpecSweep == InitSweep /\ [][SweepNext]_vars

SpecRestore == InitRestore /\ [][RestoreNext]_vars

\* the event loop resumes restorePartitions whenever its awaited call has settled
FairRestore == SpecRestore /\ WF_vars(RestoreNext)

(***************************************************************************)
(* Properties                                                              *)
(***************************************************************************)

\* C7 (as claimed): whenever a poll of an execute call has seen FAILED, CANCELLED
\* or an unrecognised status, on the first poll or a later one, the call has
\* rejected towards its caller, and for FAILED the error carries the remote reason.
C7_FailureDelivered ==
    lastState \in BadStatuses =>
        /\ epc = "rejected"
        /\ lastState = "FAILED" => eerr = <<"Query failed: ", reason>>

\* C5 (as claimed): every database removeTrailingDatabases has deleted carried the
\* current stack's tag, and each delete removed the database that was enumerated,
\* in the catalog where it was enumerated.
C5_OnlyTaggedDeleted ==
    \A d \in sdeleted : d.stack = Stack /\ d.catalog = d.from

\* C6 (as claimed): backupPartitions for a table that is not in the catalog, for
\* which getTable reports not found, returns an empty sequence and throws nothing.
C6_NotFoundIsEmpty ==
    (bgot = "notfound" /\ bpc # "idle") =>
        /\ bpc = "returned"
        /\ bacc = <<>>
        /\ berr = NoError

AllStatementsFit ==
    /\ \A j \in 1..Len(rstmts) : QueryBytes(rtable, rstmts[j]) <= querySizeLimit
    /\ rpc = "exec" => QueryBytes(rtable, rquery) <= querySizeLimit

Covered ==
    \A k \in 1..Len(rparts) : \E j \in 1..Len(rstmts) : rparts[k] \in Range(rstmts[j])

EachClauseFitsAlone ==
    \A k \in 1..Len(rparts) : ~Overflows(rtable, <<>>, rparts[k])

\* C9 (as claimed): unless an executor call fails, restorePartitions ends having
\* executed only statements of at most 262144 bytes, with every partition of a
\* non-empty snapshot list in at least one executed statement, and no statement
\* at all for an empty list. Stated for the snapshot lists in which every clause
\* fits in a statement of its own, the only ones for which both halves can hold.
C9_BoundedAndCovering ==
    <>(\/ rpc \in {"threw", "hung"}
       \/ ~EachClauseFitsAlone
       \/ /\ rpc \in {"returned", "typeerror"}
          /\ AllStatementsFit
          /\ Covered
          /\ rparts = <<>> => rstmts = <<>>)

\* C10 (as claimed): the first delay of an execute call is 100, each later delay
\* is the previous one plus 100, the delays never decrease and none exceeds 1000.
C10_PlusHundredEachTime ==
    \A k \in 1..Len(delays) :
        /\ k = 1 => delays[k] = 100
        /\ k > 1 => delays[k] = delays[k - 1] + 100 /\ delays[k] >= delays[k - 1]
        /\ delays[k] <= 1000

\* C10 (amended): the first delay is 100, each later delay is the previous one
\* plus 100 capped at 1000, so the delays never decrease and none exceeds 1000.
C10_CappedBackoff ==
    \A k \in 1..Len(delays) :
        /\ k = 1 => delays[k] = 100
        /\ k > 1 => delays[k] = Min(1000, delays[k - 1] + 100) /\ delays[k] >= delays[k - 1]
        /\ delays[k] <= 1000

\* C10 witness: an execute call whose backoff has reached the cap and stayed there
C10_Witness ==
    /\ Len(delays) >= 11
    /\ delays[Len(delays)] = 1000
    /\ delays[Len(delays) - 1] = 1000

\* ---- the deploy run ----

Selected(k) == options.database = NoFilter \/ Databases[k].name = options.database

TableSelected(t) == options.table = NoFilter \/ t.name = options.table

\* deployDatabase has begun on database k: its first request is in the log
Ran(k) == \E e \in Range(log) : e.op = "getDatabase" /\ e.db = Databases[k].name

\* deployDatabase has returned for database k
Left(k) == Selected(k) /\ di > k

RunOver == pc \in {"done", "failed", "hung", "spinning"}

\* every declared table of database k was in the catalog with the hash of its DDL
UpToDate(k) ==
    \A j \in 1..Len(Databases[k].tables) :
      LET t == Databases[k].tables[j]
          b == before[Databases[k].name][t.name]
      IN  b.exists /\ b.hash = hash(t.ddl)

Stamped(k, t) ==
    \E e \in Range(log) :
      e.op = "STAMP" /\ e.db = Databases[k].name /\ e.tbl = t.name /\ e.info = t.ddl

\* C1 (as claimed): once deployDatabase has returned for a database whose declared
\* tables all had the hash of their DDL, it has issued no DROP TABLE and no
\* create statement for any table and has issued the stamp for every declared table
C1_NoChurnAllStamped ==
    \A k \in 1..Len(Databases) :
      (UpToDate(k) /\ Ran(k) /\ Left(k)) =>
        /\ \A e \in Range(log) : e.db = Databases[k].name => e.op \notin {"DROP", "CREATE"}
        /\ \A j \in 1..Len(Databases[k].tables) : Stamped(k, Databases[k].tables[j])

\* C1 (amended): on a database whose declared tables all had the hash of their
\* DDL, deployDatabase issues no DROP TABLE and no create statement for a
\* declared table, and when it returns it has issued the stamp for every
\* declared table the table filter selects
C1_Idempotent ==
    \A k \in 1..Len(Databases) :
      UpToDate(k) =>
        /\ \A e \in Range(log) :
             (e.db = Databases[k].name /\ e.tbl \in DeclaredNames(Databases[k]))
               => e.op \notin {"DROP", "CREATE"}
        /\ Left(k) =>
             \A j \in 1..Len(Databases[k].tables) :
               TableSelected(Databases[k].tables[j]) => Stamped(k, Databases[k].tables[j])

\* C1 witness: deployDatabase has returned for db1, whose two declared tables
\* were up to date, and has stamped both
C1_Witness ==
    /\ UpToDate(1)
    /\ Left(1)
    /\ Ran(1)
    /\ options.table = NoFilter
    /\ \A j \in 1..Len(Databases[1].tables) : Stamped(1, Databases[1].tables[j])

\* C2 (as claimed): when the run is over, a table that existed, whose DDL was
\* captured, whose drop succeeded and whose create from the declared DDL failed
\* exists with the definition it had before the drop
C2_RolledBack ==
    RunOver =>
      \A k \in 3..Len(log) :
        ( /\ log[k].op = "CREATE" /\ log[k].by = "deployTable" /\ log[k].out # "resolved"
          /\ log[k - 1].op = "DROP" /\ log[k - 1].out = "resolved"
          /\ log[k - 2].op = "SHOW" /\ log[k - 2].out = "resolved"
          /\ log[k - 2].info # Absent )
        => /\ rtbl[log[k].db][log[k].tbl].exists
           /\ rtbl[log[k].db][log[k].tbl].def = before[log[k].db][log[k].tbl].def

\* deployTable has returned for table t of database k
Returned(k, t) ==
    \E e \in Range(log) : e.op = "done" /\ e.db = Databases[k].name /\ e.tbl = t.name

C4_OnlyTaggedDropped ==
    \A e \in Range(log) :
      (e.op = "DROP" /\ e.by = "removeTrailingTables") => e.info = Stack

\* C4 witness: removeTrailingTables has run on db1, which held the undeclared and
\* untagged table tx, and tx is still there
C4_Witness ==
    /\ \E e \in Range(log) : e.op = "found" /\ e.db = "db1"
    /\ before["db1"]["tx"].exists
    /\ before["db1"]["tx"].stack = NoTag
    /\ rtbl["db1"]["tx"].exists
    /\ di > 1

\* deployTable has begun on table t of database k
Attempted(k, t) ==
    \E e \in Range(log) : e.by = "deployTable" /\ e.db = Databases[k].name /\ e.tbl = t.name

\* an executor call, Glue request or file write whose failure reaches the caller
\* of deploy: every failure but the rejected create that deployTable catches
Failing(e) ==
    /\ e.out # "resolved"
    /\ ~(e.op = "CREATE" /\ e.by = "deployTable" /\ e.out = "rejected")

\* C8 (as claimed): when the run is over, deployDatabase has begun on every
\* database the filter selects, and deployTable on every table the filter
\* selects of each database whose tables were listed
C8_OthersAttempted ==
    RunOver =>
      \A k \in 1..Len(Databases) :
        Selected(k) =>
          /\ Ran(k)
          /\ (\E e \in Range(log) :
                e.op = "listTables" /\ e.db = Databases[k].name /\ e.out = "resolved")
             => \A j \in 1..Len(Databases[k].tables) :
                  TableSelected(Databases[k].tables[j]) => Attempted(k, Databases[k].tables[j])

\* C8 (amended): a failure that reaches the caller of deploy is the last thing
\* the run does: no request or statement is issued after it, for that table,
\* for a remaining table or for a remaining database
C8_FailFast ==
    \A k \in 1..Len(log) : Failing(log[k]) => k = Len(log)

\* C8 witness: the stamp of db1.t1 has failed, and the run is over without
\* deployTable having begun on db1.t2 or deployDatabase on db2
C8_Witness ==
    /\ pc = "failed"
    /\ options = [database |-> NoFilter, table |-> NoFilter]
    /\ log # <<>>
    /\ log[Len(log)].op = "STAMP"
    /\ log[Len(log)].tbl = "t1"
    /\ log[Len(log)].db = "db1"
    /\ ~Attempted(1, Databases[1].tables[2])
    /\ ~Ran(2)

\* removeTrailingDatabases was invoked: its listing request is in the log
SweepInvoked == \E e \in Range(log) : e.by = "removeTrailingDatabases"

\* C11 (as claimed): in a run of deploy with a database filter or with a table
\* filter, removeTrailingDatabases is not invoked
C11_NarrowedSkipsSweep ==
    (options.database # NoFilter \/ options.table # NoFilter) => ~SweepInvoked

\* C11 (amended): in a run of deploy with a database filter,
\* removeTrailingDatabases is not invoked; a table filter alone does not prevent it
C11_DatabaseFilterSkipsSweep ==
    options.database # NoFilter => ~SweepInvoked

\* C11 witness: a run with a database filter has ended normally
C11_Witness ==
    /\ options.database = "db1"
    /\ pc = "done"
    /\ Ran(1)
    /\ ~SweepInvoked

\* the declared databases the database filter of remove selects
RemoveSelected ==
    {Databases[k].name : k \in {j \in 1..Len(Databases) :
        rmoptions.database = NoFilter \/ Databases[j].name = rmoptions.database}}

\* C12 (as claimed): every deleteDatabase request of remove names, by its
\* declared name, a declared database that the filter selects, no database is
\* named twice, and a run that is over has issued one for each of them
C12_DeletesDeclared ==
    /\ \A k \in 1..Len(rmreqs) :
         /\ rmreqs[k].Name.type = "string"
         /\ rmreqs[k].Name.text \in RemoveSelected
         /\ \A j \in 1..Len(rmreqs) : rmreqs[j].Name = rmreqs[k].Name => j = k
    /\ rmpc \in {"done", "failed"} =>
         \A n \in RemoveSelected : \E k \in 1..Len(rmreqs) : rmreqs[k].Name = StringValue(n)

\* the malformations of one table: no name or no ddl
TableMalformed(t) == ~t.name \/ ~t.ddl

\* the malformations of one database: empty output, tables that are not an
\* array, a malformed table
DatabaseMalformed(d) ==
    \/ d.output = ""
    \/ d.tables.shape = "notArray"
    \/ \E k \in 1..Len(d.tables.list) : TableMalformed(d.tables.list[k])

\* C13 (as claimed): when databases is not an array, or a database has an empty
\* output, tables that are not an array, or a table without name or ddl, deploy
\* and remove issue no provider request
C13_MalformedNoRequest ==
    (custom.present /\
       (~custom.isArray \/
          \E k \in 1..Len(custom.databases) : DatabaseMalformed(custom.databases[k])))
    => crequests = 0

\* C13 (amended): when databases is not an array, or a database that is not
\* disabled has an empty output, tables that are not an array, or a table that is
\* not disabled without name or ddl, deploy and remove issue no provider request
C13_EnabledMalformedNoRequest ==
    (custom.present /\
       (~custom.isArray \/
          \E k \in 1..Len(custom.databases) :
            LET d == custom.databases[k]
            IN  d.enabled /\
                  (\/ d.output = ""
                   \/ d.tables.shape = "notArray"
                   \/ \E j \in 1..Len(d.tables.list) :
                        d.tables.list[j].enabled /\ TableMalformed(d.tables.list[j]))))
    => crequests = 0 /\ cpc \in {"start", "failed"}

\* C13 witness: the getter has thrown for a second database whose table has no
\* ddl, and the operation has failed without a request
C13_Witness ==
    /\ cpc = "failed"
    /\ crequests = 0
    /\ custom.present /\ custom.isArray
    /\ Len(custom.databases) = 2
    /\ DatabaseError(custom.databases[1]) = "none"
    /\ custom.databases[1].enabled
    /\ config(custom).error = "Invalid DDL"

\* C14 (as claimed): when removeTrailingDatabases returns, it has listed every
\* data catalog, and for every database of a catalog that carries the current
\* stack's tag and is not declared it has issued a delete
C14_SweepComplete ==
    spc = "returned" =>
      /\ Range(scats) = Range(CatalogNames)
      /\ \A c \in Range(CatalogNames), n \in Range(DbNames) :
           (sremote[c][n] = Stack /\ n \notin SweepDeclared)
             => \E k \in 1..Len(sreqs) : sreqs[k].Name = n /\ sreqs[k].from = c

\* C15 (as claimed): after a run of deploy without a database filter and without
\* a table filter that has ended without error, no table of a declared database
\* carries the current stack's tag while its name is not declared for that database
C15_NoOrphanTables ==
    (pc = "done" /\ options.database = NoFilter /\ options.table = NoFilter) =>
      \A k \in 1..Len(Databases) : \A n \in TableNames :
        n \notin DeclaredNames(Databases[k]) =>
          ~(rtbl[Databases[k].name][n].exists /\ rtbl[Databases[k].name][n].stack = Stack)

\* the declared database of a name
DeclaredDb(name) == Databases[CHOOSE k \in 1..Len(Databases) : Databases[k].name = name]

\* C16 (as claimed): the Parameters an update of a present database writes are
\* the Parameters read from it overridden by the declared properties (creator,
\* stack and table list included), and the database is neither created nor deleted
C16_UpdateMergesProvenance ==
    \A k \in 1..Len(log) :
      (log[k].op = "updateDatabase" /\ log[k].out = "resolved") =>
        /\ log[k].info.written = MergeParams(log[k].info.read, DeclaredParams(DeclaredDb(log[k].db)))
        /\ \A j \in 1..Len(log) :
             log[j].db = log[k].db => log[j].op \notin {"createDatabase", "deleteDatabase"}

\* the positions of the log entries of deployTable for table t of database k
EntriesOf(k, t) ==
    {i \in 1..Len(log) :
       log[i].by = "deployTable" /\ log[i].db = Databases[k].name /\ log[i].tbl = t.name}

\* C17 (as claimed): for a declared table that was not in the catalog, deployTable
\* issues no SHOW CREATE TABLE and no DROP TABLE, the first statement it executes
\* is the create from the declared DDL, and when it has returned the table exists
\* with the hash of the declared DDL
C17_AbsentTableCreatedFirst ==
    \A k \in 1..Len(Databases) : \A j \in 1..Len(Databases[k].tables) :
      LET t == Databases[k].tables[j]
      IN  ~before[Databases[k].name][t.name].exists =>
            /\ \A i \in EntriesOf(k, t) : log[i].op \notin {"SHOW", "DROP"}
            /\ \A i \in EntriesOf(k, t) :
                 (\A h \in EntriesOf(k, t) : i <= h)
                   => log[i].op = "CREATE" /\ log[i].info = t.ddl
            /\ Returned(k, t) =>
                 /\ rtbl[Databases[k].name][t.name].exists
                 /\ rtbl[Databases[k].name][t.name].hash = hash(t.ddl)

\* C18 (as claimed): every getQueryExecution request of an execute call, the
\* first included, is issued after a delay: none before 100 time units have
\* passed since the query was submitted
C18_DelayBeforeEveryPoll ==
    \A k \in 1..Len(pollAt) : pollAt[k] >= 100

\* C18 (amended): the first getQueryExecution request is issued at once, with
\* no delay after the submission; every later one is issued when the delay armed
\* after the previous QUEUED/RUNNING poll, which is at least 100, has passed
C18_DelayBetweenPolls ==
    \A k \in 1..Len(pollAt) :
        /\ k = 1 => pollAt[k] = 0
        /\ k > 1 => /\ pollAt[k] = pollAt[k - 1] + delays[k - 1]
                    /\ delays[k - 1] >= 100

\* C18 witness: an execute call at its third poll, 300 time units after the first
C18_Witness ==
    /\ Len(pollAt) >= 3
    /\ pollAt[1] = 0
    /\ pollAt[2] = 100
    /\ pollAt[3] = 300

\* the clauses of the executed statements, one statement after the other
RECURSIVE Flat(_)
Flat(stmts) == IF stmts = <<>> THEN <<>> ELSE Head(stmts) \o Flat(Tail(stmts))

\* C19 (as claimed): each statement restorePartitions executes begins with the
\* clause that did not fit in the one before, so the clauses of the executed
\* statements are the partitions of the snapshot list in order, each once, and
\* all of them when restorePartitions returns
C19_FlushStartsWithOverflowing ==
    /\ Len(Flat(rstmts)) <= Len(rparts)
    /\ \A k \in 1..Len(Flat(rstmts)) : Flat(rstmts)[k] = rparts[k]
    /\ rpc = "returned" => Flat(rstmts) = rparts

\* C20 (as claimed): unless an executor call fails, restorePartitions comes to an
\* end after finitely many statements, also when only one clause fits in a
\* statement and when a clause does not fit in a statement alone (where its end
\* is the TypeError)
C20_RestoreTerminates ==
    <>(rpc \in {"returned", "typeerror", "threw", "hung"})

\* the table had partition keys before the run and is declared with keepPartitions
KeptPartitioned(k, t) ==
    LET b == before[Databases[k].name][t.name]
    IN  b.exists /\ Len(PartitionKeys(b)) > 0 /\ t.keepPartitions

\* the side file of table t of database k holds the partitions the table had
\* before the run, each with its values and its location
SnapshotWritten(k, t) ==
    LET b == before[Databases[k].name][t.name]
    IN  \E f \in files :
          /\ f.file = <<Databases[k].catalog, Databases[k].name, t.name>>
          /\ Len(f.content) = Cardinality(b.parts)
          /\ \A p \in b.parts :
               \E c \in Range(f.content) :
                 /\ c.location = p.Location
                 /\ Len(c.values) = Len(p.Values)
                 /\ \A n \in 1..Len(p.Values) : c.values[n].value = p.Values[n]

\* C21: for a table that had partition keys and is declared with keepPartitions,
\* every DROP TABLE deployTable issues comes after a backup that returned and a
\* write of the side file that returned, in this order, and the file named from
\* catalog, database and table holds the partitions of the table; once the
\* backup or the write has failed, no DROP TABLE is issued for the table
C21_SnapshotBeforeDrop ==
    \A k \in 1..Len(Databases) : \A j \in 1..Len(Databases[k].tables) :
      LET t == Databases[k].tables[j]
      IN  KeptPartitioned(k, t) =>
            \A i \in EntriesOf(k, t) :
              log[i].op = "DROP" =>
                /\ \E g \in EntriesOf(k, t) : \E h \in EntriesOf(k, t) :
                     /\ g < h /\ h < i
                     /\ log[g].op = "backupPartitions" /\ log[g].out = "resolved"
                     /\ log[h].op = "writeFile" /\ log[h].out = "resolved"
                /\ SnapshotWritten(k, t)
                /\ \A g \in EntriesOf(k, t) :
                     log[g].op \in {"backupPartitions", "writeFile"} => log[g].out = "resolved"

\* C21 witness: db1.t1, partitioned and deployed from another DDL, was dropped
\* with its two partitions in the side file, and the run then ended on the
\* failed write of the side file of db2.t1, for which no drop was issued
C21_Witness ==
    /\ KeptPartitioned(1, Databases[1].tables[1])
    /\ Cardinality(before["db1"]["t1"].parts) = 2
    /\ \E i \in EntriesOf(1, Databases[1].tables[1]) : log[i].op = "DROP"
    /\ SnapshotWritten(1, Databases[1].tables[1])
    /\ KeptPartitioned(2, Databases[2].tables[1])
    /\ \E i \in EntriesOf(2, Databases[2].tables[1]) :
         log[i].op = "writeFile" /\ log[i].out = "rejected"
    /\ pc = "failed"

\* restorePartitions was called for table t of database k: deployTable is in the
\* call, or an ALTER TABLE ADD of the call is in the log
RestoreInvoked(k, t) ==
    \/ pc = "restore" /\ di = k /\ CurTable = t
    \/ \E e \in Range(log) : e.op = "ADD" /\ e.db = Databases[k].name /\ e.tbl = t.name

\* deployTable has re-fetched table t of database k and gone past the test that
\* follows
Refetched(k, t) ==
    /\ \E i \in EntriesOf(k, t) : log[i].op = "getTable" /\ log[i].out = "resolved"
    /\ ~(pc = "getTable" /\ di = k /\ CurTable = t)

C23_BackupPagesComplete ==
    /\ \A k \in 1..Len(breqs) : breqs[k] = (k - 1) * bpagesize
    /\ \A k \in 2..Len(breqs) : breqs[k] # NoToken /\ breqs[k] < Len(btable.parts)
    /\ bpc = "returned" =>
         /\ Len(breqs) * bpagesize >= Len(btable.parts)
         /\ Len(bacc) = Len(btable.parts)
         /\ \A k \in 1..Len(bacc) :
              /\ bacc[k].location = btable.parts[k].Location
              /\ Len(bacc[k].values) = Len(btable.PartitionKeys)
              /\ \A i \in 1..Len(btable.PartitionKeys) :
                   /\ bacc[k].values[i].name = btable.PartitionKeys[i]
                   /\ bacc[k].values[i].value = btable.parts[k].Values[i]

\* C23 witness: backupPartitions has returned the three partitions of a table
\* with two partition keys, listed in pages of one
C23_Witness ==
    /\ bpc = "returned"
    /\ btable.exists
    /\ Len(btable.PartitionKeys) = 2
    /\ Len(btable.parts) = 3
    /\ bpagesize = 1
    /\ breqs = <<NoToken, 1, 2>>
    /\ Len(bacc) = 3

\* ---- the order of the tables ----

\* the positions of the log entries of every operation on table t of database k:
\* those of deployTable and those of the restorePartitions it calls
OperationsOn(k, t) ==
    {i \in 1..Len(log) : log[i].db = Databases[k].name /\ log[i].tbl = t.name}

\* C24: within a database, an operation on a declared table is issued only when
\* deployTable has returned for every table declared before it that the table
\* filter selects, and after every operation on those tables
C24_TablesInOrder ==
    \A k \in 1..Len(Databases) :
      \A i \in 1..Len(Databases[k].tables) : \A j \in 1..Len(Databases[k].tables) :
        LET first == Databases[k].tables[i]
            second == Databases[k].tables[j]
        IN  (i < j /\ OperationsOn(k, second) # {}) =>
              /\ TableSelected(first) => Returned(k, first)
              /\ \A g \in OperationsOn(k, first) : \A h \in OperationsOn(k, second) : g < h

\* C24 witness: db1.t1 was recreated and its partitions restored, and then
\* deployTable has run and returned for db1.t2
C24_Witness ==
    /\ \E g \in OperationsOn(1, Databases[1].tables[1]) : log[g].op = "ADD"
    /\ Returned(1, Databases[1].tables[1])
    /\ \E h \in OperationsOn(1, Databases[1].tables[2]) : log[h].op = "CREATE"
    /\ Returned(1, Databases[1].tables[2])

\* ---- the stored hash ----

\* C25 (as claimed): at every moment of a run, a table of the catalog that
\* carries 'sls.athena.hash' equal to the hash of a DDL text has the definition
\* created from that text, also when a create has failed and the previous
\* definition was put back
C25_HashTellsTruth ==
    \A n \in DeployDbNames : \A t \in TableNames :
      \A ddl \in {"A1", "A2", "B1", "K1"} :
        (rtbl[n][t].exists /\ rtbl[n][t].hash = hash(ddl)) => rtbl[n][t].def = ddl

\* ---- tables of others ----

\* C26 (as claimed): every DROP TABLE of a deploy run, issued by deployTable or
\* by removeTrailingTables, for a table that is in the catalog is for a table
\* that carries 'sls.athena.stack' equal to the current stack name when the
\* drop is issued
C26_NoUnmanagedTableDropped ==
    \A e \in Range(log) :
      (e.op = "DROP" /\ e.info # Absent) => e.info = Stack

====
